---- MODULE Spec2Model ----
(***************************************************************************)
(* A model of chaq-sdfgen (OpenMP version): the 1-D / 2-D Euclidean        *)
(* distance transform of df.c and the pipeline of sdfgen's main            *)
(* (thresholder, seed builder, two 2-D EDTs, combiner, quantizer,          *)
(* encoder).                                                               *)
(*                                                                         *)
(* Floats.  A finite float x is the integer x * ONE (a binary fixed-point  *)
(* grid); +inf, -inf and NaN are three integers outside the finite range.  *)
(* Sums, differences and products of grid values are exact, as they are    *)
(* in IEEE-754 for the small values the model uses; sqrtf rounds to the    *)
(* nearest grid value as IEEE sqrtf rounds to the nearest float.  The      *)
(* quotient computed by parabola_intersect is kept as an exact fraction    *)
(* n/d; every comparison the code makes on it is decided exactly.          *)
(***************************************************************************)
EXTENDS Integers, Sequences, FiniteSets, TLC

\* ------------------------------------------------------------------ bounds
MaxN == 4          \* longest row given to dist_transform_1d on its own
MaxHeight == 4     \* largest finite height of such a row, in half pixels
MaxW == 2          \* widest image of the pipeline runs
MaxH == 2          \* tallest image of the pipeline runs
MaxSpread == 4     \* largest spread given to the quantizer on its own
MaxFrags == 3      \* most options on a command line of the argument runs

\* ------------------------------------------------------------------ floats
ONE == 256                      \* the float 1.0f
INFINITY == 1073741824          \* math.h INFINITY
NAN == 1073741825               \* the result of inf - inf and of 0/0

F(n) == n * ONE                 \* (float)n of an integer n

isinf(x) == x = INFINITY \/ x = -INFINITY
isnan(x) == x = NAN

FNeg(a) == IF isnan(a) THEN NAN ELSE -a

FAdd(a, b) ==
    IF isnan(a) \/ isnan(b) THEN NAN
    ELSE IF isinf(a) /\ isinf(b) THEN (IF a = b THEN a ELSE NAN)
    ELSE IF isinf(a) THEN a
    ELSE IF isinf(b) THEN b
    ELSE a + b

FSub(a, b) == FAdd(a, FNeg(b))

\* a * b of two floats, one of which is an integer number of units
FMul(a, b) ==
    IF isnan(a) \/ isnan(b) THEN NAN
    ELSE IF isinf(a) \/ isinf(b)
         THEN (IF a = 0 \/ b = 0 THEN NAN
               ELSE IF (a > 0) = (b > 0) THEN INFINITY ELSE -INFINITY)
    ELSE (a * b) \div ONE

\* the comparisons of C: false whenever an operand is NaN
FLt(a, b) == ~isnan(a) /\ ~isnan(b) /\ a < b
FGt(a, b) == ~isnan(a) /\ ~isnan(b) /\ a > b

\* the float num / den, den an integer: a fraction n/d with d > 0, or
\* n in {INFINITY, -INFINITY, NAN} with d = 1
FDiv(num, den) ==
    IF isnan(num) THEN [n |-> NAN, d |-> 1]
    ELSE IF isinf(num) THEN [n |-> IF den < 0 THEN -num ELSE num, d |-> 1]
    ELSE IF den = 0
         THEN [n |-> IF num = 0 THEN NAN
                     ELSE IF num > 0 THEN INFINITY ELSE -INFINITY, d |-> 1]
    ELSE IF den < 0 THEN [n |-> -num, d |-> -den]
    ELSE [n |-> num, d |-> den]

\* a <= b and a < b on such fractions
QLe(a, b) ==
    IF isnan(a.n) \/ isnan(b.n) THEN FALSE
    ELSE IF isinf(a.n) \/ isinf(b.n) THEN a.n <= b.n
    ELSE a.n * b.d <= b.n * a.d
QLt(a, b) ==
    IF isnan(a.n) \/ isnan(b.n) THEN FALSE
    ELSE IF isinf(a.n) \/ isinf(b.n) THEN a.n < b.n
    ELSE a.n * b.d < b.n * a.d

\* What a read of a cell that was never written can yield.  The values are
\* representatives of "any float": zero, a fraction, +inf.
Garbage == {0, ONE \div 4, INFINITY}

\* ------------------------------------------------------------------ df.c
\* intersection of the parabolas rooted at p and q
parabola_intersect(f, p, q) ==
    FDiv(FAdd(FSub(f[q], f[p]), F(q * q) - F(p * p)), 2 * (q - p))

\* The state of one call of dist_transform_1d: the views f, v, h, z, the
\* locals, the position pc, and three ghost fields: f0, the row on entry,
\* past, whether f was read at index N, and calls, the pairs <<p, q>> that
\* parabola_intersect has been called with.
\* g is the content of the scratch buffers as malloc returned them.
D1Start(f, N, g) ==
    [f |-> f, f0 |-> f, N |-> N,
     v |-> [i \in 0..(N - 1) |-> 0],
     h |-> [i \in 0..(N - 1) |-> g],
     z |-> [i \in 0..(N - 2) |-> [n |-> g, d |-> 1]],
     offset |-> 0, k |-> 0, q |-> 0, j |-> 0, past |-> FALSE, calls |-> {},
     pc |-> "entry"]

\* the routine without its early return on rows of at most one cell
D1Entry_NoReturn(st) == [st EXCEPT !.pc = "scan"]

\* if ((f.end - f.start) <= 1) return;
D1Entry(st) ==
    IF st.N <= 1 THEN [st EXCEPT !.pc = "done"] ELSE [st EXCEPT !.pc = "scan"]

\* a scan that takes cell 0 as the first vertex whatever it holds
D1Scan_FromZero(st) == [st EXCEPT !.v[0] = 0, !.k = 0, !.q = 1, !.pc = "part1"]

\* while (isinf(f.start[offset]) && offset < N) ++offset;   one iteration,
\* and on leaving the loop the test offset == N and v.start[0] = offset.
\* At offset = N the read f.start[N] is outside the view; whatever it
\* yields, the loop ends there.
D1Scan(st) ==
    IF st.offset >= st.N
    THEN [st EXCEPT !.past = TRUE, !.pc = "done"]
    ELSE IF isinf(st.f[st.offset])
    THEN [st EXCEPT !.offset = @ + 1]
    ELSE [st EXCEPT !.v[0] = st.offset, !.k = 0, !.q = st.offset + 1,
                    !.pc = "part1"]

\* a Part 1 that never backs up
BackUp_Never(st, k, s, q) == [k |-> k, s |-> s]

\* while (k > 0 && s <= z.start[k - 1]) { --k; s = parabola_intersect(...); }
RECURSIVE BackUp(_, _, _, _)
BackUp(st, k, s, q) ==
    IF k > 0 /\ QLe(s, st.z[k - 1])
    THEN BackUp(st, k - 1, parabola_intersect(st.f, st.v[k - 1], q), q)
    ELSE [k |-> k, s |-> s]

\* one iteration of the for loop of Part 1
D1Part1(st) ==
    IF st.q >= st.N THEN [st EXCEPT !.j = 0, !.q = 0, !.pc = "part2"]
    ELSE IF isinf(st.f[st.q]) THEN [st EXCEPT !.q = @ + 1]
    ELSE LET b == BackUp(st, st.k, parabola_intersect(st.f, st.v[st.k], st.q),
                         st.q)
         IN [st EXCEPT !.z[b.k] = b.s, !.k = b.k + 1, !.v[b.k + 1] = st.q,
                       !.h[b.k + 1] = st.f[st.q], !.q = @ + 1,
                       !.calls = @ \cup {<<st.v[kk], st.q>> : kk \in b.k..st.k}]

\* a seek that steps over one break point without looking
Seek_Past(st, j) == j + 1

\* while (j < k && z.start[j] < (float)q) ++j;
RECURSIVE Seek(_, _)
Seek(st, j) ==
    IF j < st.k /\ QLt(st.z[j], [n |-> F(st.q), d |-> 1])
    THEN Seek(st, j + 1) ELSE j

\* one iteration of the for loop of Part 2
D1Part2(st) ==
    IF st.q >= st.N THEN [st EXCEPT !.pc = "done"]
    ELSE LET j == Seek(st, st.j)
             displacement == F(st.q) - F(st.v[j])
         IN [st EXCEPT !.j = j,
                       !.f[st.q] = FAdd(FMul(displacement, displacement),
                                        st.h[j]),
                       !.q = @ + 1]

D1Step(st) ==
    CASE st.pc = "entry" -> D1Entry(st)
      [] st.pc = "scan" -> D1Scan(st)
      [] st.pc = "part1" -> D1Part1(st)
      [] st.pc = "part2" -> D1Part2(st)
      [] OTHER -> st

RECURSIVE D1Run(_)
D1Run(st) == IF st.pc = "done" THEN st ELSE D1Run(D1Step(st))

\* the row a call leaves in f
dist_transform_1d(f, N, g) == D1Run(D1Start(f, N, g)).f

\* malloc(n * sizeof ...): n cells of unspecified content g
malloc(n, g) == [i \in 0..(n - 1) |-> g]

\* dist_transform_axis: dist_transform_1d on each of the h rows of img, each
\* call with scratch buffers of its own (gs[y] is what malloc handed row y)
dist_transform_axis(img, w, h, gs) ==
    LET row(y) == dist_transform_1d([x \in 0..(w - 1) |-> img[y * w + x]],
                                    w, gs[y])
        rows == [y \in 0..(h - 1) |-> row(y)]
    IN [i \in 0..(w * h - 1) |-> rows[i \div w][i % w]]

\* for (i = 0; i < w * h; ++i) dest[h * x + y] = src[i];
RECURSIVE transpose_loop(_, _, _, _, _)
transpose_loop(dest, src, w, h, i) ==
    IF i >= w * h THEN dest
    ELSE LET x == i % w
             y == i \div w
         IN transpose_loop([dest EXCEPT ![h * x + y] = src[i]], src, w, h,
                           i + 1)

transpose_cpy(dest, src, w, h) == transpose_loop(dest, src, w, h, 0)

\* the largest r in lo..hi with r * r <= m
RECURSIVE isqrt(_, _, _)
isqrt(m, lo, hi) ==
    IF lo >= hi THEN lo
    ELSE LET mid == (lo + hi + 1) \div 2
         IN IF mid * mid <= m THEN isqrt(m, mid, hi) ELSE isqrt(m, lo, mid - 1)

\* sqrtf: the grid value nearest to the square root
sqrtf(x) ==
    IF isnan(x) \/ x < 0 THEN NAN
    ELSE IF isinf(x) THEN INFINITY
    ELSE LET m == x * ONE
             r == isqrt(m, 0, 32767)
         IN IF m - r * r > r THEN r + 1 ELSE r

\* for (i = 0; i < w * h; ++i) dest[h * x + y] = sqrtf(src[i]);
RECURSIVE transpose_sqrt_loop(_, _, _, _, _)
transpose_sqrt_loop(dest, src, w, h, i) ==
    IF i >= w * h THEN dest
    ELSE LET x == i % w
             y == i \div w
         IN transpose_sqrt_loop([dest EXCEPT ![h * x + y] = sqrtf(src[i])],
                                src, w, h, i + 1)

transpose_cpy_sqrt(dest, src, w, h) == transpose_sqrt_loop(dest, src, w, h, 0)

\* ------------------------------------------------------------------ sdfgen
UCHAR_MAX == 255

\* a thresholder that inverts the mask of the test from above
transform_img_to_bool_xor(img_in, width, height, stride, offset, test_above) ==
    [i \in 0..(width * height - 1) |->
        (img_in[i * stride + offset] > 127) # ~test_above]

\* bool pixel = test_above ? img_in[i * stride + offset] > threshold
\*                         : img_in[i * stride + offset] < threshold;
transform_img_to_bool(img_in, width, height, stride, offset, test_above) ==
    LET threshold == 127
    IN [i \in 0..(width * height - 1) |->
           IF test_above THEN img_in[i * stride + offset] > threshold
                         ELSE img_in[i * stride + offset] < threshold]

\* a seeding that writes 0 at the true cells whatever the polarity asked for
transform_bool_to_float_fixed(bool_in, width, height, true_is_zero) ==
    [i \in 0..(width * height - 1) |-> IF bool_in[i] THEN 0 ELSE INFINITY]

\* float_out[i] = bool_in[i] == true_is_zero ? 0.f : INFINITY;
transform_bool_to_float(bool_in, width, height, true_is_zero) ==
    [i \in 0..(width * height - 1) |->
        IF bool_in[i] = true_is_zero THEN 0 ELSE INFINITY]

\* float val = float_by[i] > 0.f ? float_by[i] + bias : float_by[i];
\* float_dst[i] -= val;
transform_float_sub(float_dst, float_by, width, height) ==
    [i \in 0..(width * height - 1) |->
        LET bias == -ONE
            val == IF FGt(float_by[i], 0) THEN FAdd(float_by[i], bias)
                   ELSE float_by[i]
        IN FSub(float_dst[i], val)]

\* a remap that falls where the code's remap rises
Remap_Reversed(v0, spread, asymmetric) ==
    LET s_min == IF asymmetric THEN 0 ELSE -F(spread)
        s_max == F(spread)
        sn == s_max - s_min
        v1 == IF FGt(v0, s_max) THEN s_max ELSE v0
        v == IF FLt(v1, s_min) THEN s_min ELSE v1
    IN FDiv(FMul(FSub(s_max, v), F(255)), sn \div ONE)

\* a remap without the clamp to the source range
Remap_Unclamped(v0, spread, asymmetric) ==
    LET s_min == IF asymmetric THEN 0 ELSE -F(spread)
        sn == F(spread) - s_min
    IN FDiv(FMul(FSub(v0, s_min), F(255)), sn \div ONE)

\* the clamped linear remap both versions of transform_float_to_byte
\* compute: the float (((v - s_min) * nd) / sn) + d_min as a fraction
Remap(v0, spread, asymmetric) ==
    LET s_min == IF asymmetric THEN 0 ELSE -F(spread)
        s_max == F(spread)
        d_min == 0
        d_max == F(255)
        sn == s_max - s_min
        nd == d_max - d_min
        v1 == IF FGt(v0, s_max) THEN s_max ELSE v0
        v == IF FLt(v1, s_min) THEN s_min ELSE v1
        q == FDiv(FMul(FSub(v, s_min), nd), sn \div ONE)
    IN IF isnan(q.n) \/ isinf(q.n) THEN q
       ELSE [n |-> q.n + d_min * q.d, d |-> q.d]

\* (unsigned char)remap: the fraction is discarded; the conversion of a NaN
\* or of a value outside 0..255 is undefined and yields ub
CastUChar(r, ub) ==
    IF isnan(r.n) \/ isinf(r.n) THEN ub
    ELSE LET t == IF r.n >= 0 THEN r.n \div (r.d * ONE)
                  ELSE -((-r.n) \div (r.d * ONE))
         IN IF t \in 0..UCHAR_MAX THEN t ELSE ub

\* a quantizer that stops one byte short of the end
transform_float_to_byte_short(float_in, width, height, spread, asymmetric, ub) ==
    [i \in 0..(width * height - 2) |->
        CastUChar(Remap(float_in[i], spread, asymmetric), ub)]

\* byte_out[i] = (unsigned char)remap;                    (part_000)
transform_float_to_byte(float_in, width, height, spread, asymmetric, ub) ==
    [i \in 0..(width * height - 1) |->
        CastUChar(Remap(float_in[i], spread, asymmetric), ub)]

\* lrintf: the nearest integer, a tie to the even one; undefined for NaN
lrintf(r, ub) ==
    IF isnan(r.n) \/ isinf(r.n) THEN ub
    ELSE LET den == r.d * ONE
             fl == r.n \div den
             twice == 2 * (r.n - fl * den)
         IN IF twice < den THEN fl
            ELSE IF twice > den THEN fl + 1
            ELSE IF fl % 2 = 0 THEN fl ELSE fl + 1

\* byte_out[i] = isinf(remap) ? 255 : (unsigned char)lrintf(remap); (part_002)
transform_float_to_byte_lrintf(float_in, width, height, spread, asymmetric, ub) ==
    [i \in 0..(width * height - 1) |->
        LET remap == Remap(float_in[i], spread, asymmetric)
        IN IF isinf(remap.n) THEN 255 ELSE lrintf(remap, ub) % (UCHAR_MAX + 1)]

\* ---- C strings: a string is the sequence of its characters
NUL == "NUL"
NULL == <<"NULL">>
Ch(s, i) == IF i < Len(s) THEN s[i + 1] ELSE NUL      \* s[i]

Digits == <<"0", "1", "2", "3", "4", "5", "6", "7", "8", "9">>
IsDigit(c) == \E d \in 1..10 : Digits[d] = c
DigitOf(c) == (CHOOSE d \in 1..10 : Digits[d] = c) - 1

\* strtoull(s, NULL, 10) of a string without sign or leading blanks: the
\* number its leading digits spell, 0 when there are none
RECURSIVE strtoull_from(_, _, _)
strtoull_from(s, i, acc) ==
    IF IsDigit(Ch(s, i)) THEN strtoull_from(s, i + 1, acc * 10 + DigitOf(Ch(s, i)))
    ELSE acc
strtoull(s) == strtoull_from(s, 0, 0)

\* strncmp(a, b, 3) == 0
strncmp3_eq(a, b) == \A i \in 0..2 : Ch(a, i) = Ch(b, i)

FT_NONE == -1
FT_PNG == 0
FT_BMP == 1
FT_JPG == 2
FT_TGA == 3
type_table == <<<<"p", "n", "g">>, <<"b", "m", "p">>, <<"j", "p", "g">>,
                <<"t", "g", "a">>>>

\* a read_filetype that wants the whole string to be the name
read_filetype_exact(string) ==
    IF \E t \in 1..4 : string = type_table[t]
    THEN (CHOOSE t \in 1..4 : string = type_table[t]) - 1
    ELSE FT_NONE

\* the first entry of type_table that the string starts with, else FT_NONE
read_filetype(string) ==
    IF \E t \in 1..4 : strncmp3_eq(string, type_table[t])
    THEN (CHOOSE t \in 1..4 :
             /\ strncmp3_eq(string, type_table[t])
             /\ \A u \in 1..(t - 1) : ~strncmp3_eq(string, type_table[u])) - 1
    ELSE FT_NONE

\* strrchr(s, '.'): the index of the last '.', or -1 for NULL
strrchr_dot(s) ==
    IF \E i \in 1..Len(s) : s[i] = "."
    THEN (CHOOSE i \in 1..Len(s) :
             s[i] = "." /\ \A j \in (i + 1)..Len(s) : s[j] # ".") - 1
    ELSE -1

\* the string that starts at s + i
StrFrom(s, i) == SubSeq(s, i + 1, Len(s))

\* ------------------------------------------------------------------ state
VARIABLES
    argv,   \* the command line, argv[0] first
    file,   \* what stbi_load finds in the input file
    pc,     \* main: where it is
    argi,   \* main: i, the index of the argument loop
    opt,    \* main: infile, outfile, test_channel, test_above, asymmetric,
            \*       spread, quality, filetype
    mem,    \* main: w, h and the buffers img_original, img_bool,
            \*       img_float_inside, img_float_outside, img_byte
    sec,    \* the two parallel sections: the position of each and the
            \*       img_tpose of its dist_transform_2d
    out,    \* what the process has done: usage printed, the error message,
            \*       calls of stbi_load, calls of the encoder, exit status,
            \*       the buffer whose malloc returned NULL, whether a NULL
            \*       buffer was accessed
    d1,     \* a call of dist_transform_1d on a row of its own
    qz,     \* a call of transform_float_to_byte on values of its own
    par     \* a call of dist_transform_2d on a field of its own, with the
            \*       threads of its parallel loops

mainvars == <<argv, file, pc, argi, opt, mem, sec, out>>
vars == <<argv, file, pc, argi, opt, mem, sec, out, d1, qz, par>>

Idle == [pc |-> "idle"]
Null == <<>>                      \* a buffer that is not allocated
Sections == {"inside", "outside"}

\* ------------------------------------------------------------------ main
argc == Len(argv)
Arg(n) == argv[n + 1]            \* argv[n]

\* error(...): the message goes to stderr, exit(-1) ends the process; the
\* status the parent sees is 255.  with_usage: usage() was called first.
Error(msg, with_usage) ==
    /\ out' = [out EXCEPT !.usage = @ \/ with_usage, !.err = msg, !.status = 255]
    /\ pc' = "exit"

\* if (buf == NULL) error("... malloc failed."): the malloc of buf failed
AllocError(buf, msg) ==
    /\ out' = [out EXCEPT !.failed = buf, !.err = msg, !.status = 255]
    /\ pc' = "exit"

\* the malloc of buf failed and nothing tests the pointer: the first access
\* through it is a write to address 0, which ends the process with SIGSEGV
\* (status 139) and without a message
SIGSEGV == 139
NullAccess(buf) ==
    /\ out' = [out EXCEPT !.failed = buf, !.null_access = TRUE,
                          !.status = SIGSEGV]
    /\ pc' = "exit"

\* dist_transform_1d on the row touches v, h and z: it gets past the two
\* early returns
UsesScratch(f, N) == N >= 2 /\ \E i \in 0..(N - 1) : ~isinf(f[i])

\* some row of the w x h field img makes dist_transform_1d touch its scratch
AxisUsesScratch(img, w, h) ==
    \E y \in 0..(h - 1) : UsesScratch([x \in 0..(w - 1) |-> img[y * w + x]], w)

\* the flag loop of the default case: while (argv[i][j]) { ...; ++j; }
RECURSIVE Flags(_, _, _)
Flags(a, j, o) ==
    IF Ch(a, j) = NUL THEN [o |-> o, help |-> FALSE]
    ELSE IF Ch(a, j) = "h" THEN [o |-> o, help |-> TRUE]
    ELSE IF Ch(a, j) = "n" THEN Flags(a, j + 1, [o EXCEPT !.test_above = FALSE])
    ELSE IF Ch(a, j) = "l" THEN Flags(a, j + 1, [o EXCEPT !.test_channel = 0])
    ELSE IF Ch(a, j) = "a" THEN Flags(a, j + 1, [o EXCEPT !.asymmetric = TRUE])
    ELSE Flags(a, j + 1, o)

\* one iteration of for (int i = 0; i < argc; ++i)
ParseArg ==
    /\ pc = "args" /\ argi < argc
    /\ UNCHANGED <<argv, file, mem, sec, d1, qz, par>>
    /\ LET a == Arg(argi)
           c == Ch(a, 1)
       IN IF Ch(a, 0) # "-"
          THEN argi' = argi + 1 /\ UNCHANGED <<pc, opt, out>>
          ELSE IF c = "i"
          THEN IF argi + 1 >= argc /\ opt.infile = NULL
               THEN Error("No input file specified.", TRUE)
                    /\ argi' = argi + 1 /\ UNCHANGED opt
               ELSE /\ opt' = IF argi + 1 < argc
                              THEN [opt EXCEPT !.infile = Arg(argi + 1)] ELSE opt
                    /\ argi' = argi + 2 /\ UNCHANGED <<pc, out>>
          ELSE IF c = "o"
          THEN IF argi + 1 >= argc /\ opt.outfile = NULL
               THEN Error("No output file specified.", TRUE)
                    /\ argi' = argi + 1 /\ UNCHANGED opt
               ELSE /\ opt' = IF argi + 1 < argc
                              THEN [opt EXCEPT !.outfile = Arg(argi + 1)] ELSE opt
                    /\ argi' = argi + 2 /\ UNCHANGED <<pc, out>>
          ELSE IF c = "s"
          THEN IF argi + 1 >= argc
               THEN Error("No number specified with spread.", TRUE)
                    /\ argi' = argi + 1 /\ UNCHANGED opt
               ELSE /\ opt' = [opt EXCEPT !.spread = strtoull(Arg(argi + 1))]
                    /\ argi' = argi + 2 /\ UNCHANGED <<pc, out>>
          ELSE IF c = "q"
          THEN IF argi + 1 >= argc
               THEN Error("No number specified with quality.", TRUE)
                    /\ argi' = argi + 1 /\ UNCHANGED opt
               ELSE /\ opt' = [opt EXCEPT !.quality = strtoull(Arg(argi + 1))]
                    /\ argi' = argi + 2 /\ UNCHANGED <<pc, out>>
          ELSE IF c = "f"
          THEN IF argi + 1 >= argc
               THEN Error("Filetype not specified with filetype switch.", TRUE)
                    /\ argi' = argi + 1 /\ UNCHANGED opt
               ELSE /\ opt' = [opt EXCEPT !.filetype = read_filetype(Arg(argi + 1))]
                    /\ IF read_filetype(Arg(argi + 1)) = FT_NONE
                       THEN Error("Invalid filetype specified.", TRUE)
                            /\ argi' = argi + 1
                       ELSE argi' = argi + 2 /\ UNCHANGED <<pc, out>>
          ELSE LET r == Flags(a, 1, opt)
               IN /\ opt' = r.o
                  /\ IF r.help
                     THEN /\ out' = [out EXCEPT !.usage = TRUE, !.status = 0]
                          /\ pc' = "exit" /\ argi' = argi
                     ELSE argi' = argi + 1 /\ UNCHANGED <<pc, out>>

\* the checks after the loop without the one on spread
Validate_NoSpreadCheck ==
    /\ pc = "args" /\ argi >= argc
    /\ UNCHANGED <<argv, file, argi, opt, mem, sec, d1, qz, par>>
    /\ IF opt.quality = 0 \/ opt.quality > 100
       THEN Error("Invalid value given for jpeg quality. Must be between 1-100",
                  TRUE)
       ELSE IF opt.infile = NULL THEN Error("No input file specified.", TRUE)
       ELSE IF opt.outfile = NULL THEN Error("No output file specified.", TRUE)
       ELSE pc' = "load" /\ UNCHANGED out

\* the checks after the loop
Validate ==
    /\ pc = "args" /\ argi >= argc
    /\ UNCHANGED <<argv, file, argi, opt, mem, sec, d1, qz, par>>
    /\ IF opt.quality = 0 \/ opt.quality > 100
       THEN Error("Invalid value given for jpeg quality. Must be between 1-100",
                  TRUE)
       ELSE IF opt.spread = 0
       THEN Error("Invalid value given for spread. Must be a positive integer.",
                  TRUE)
       ELSE IF opt.infile = NULL THEN Error("No input file specified.", TRUE)
       ELSE IF opt.outfile = NULL THEN Error("No output file specified.", TRUE)
       ELSE pc' = "load" /\ UNCHANGED out

\* img_original = stbi_load(infile, &w, &h, &n, 2)
Load ==
    /\ pc = "load"
    /\ UNCHANGED <<argv, file, argi, opt, sec, d1, qz, par>>
    /\ IF ~file.ok
       THEN /\ out' = [out EXCEPT !.loads = @ + 1,
                                  !.err = "Input file could not be opened.",
                                  !.status = 255]
            /\ pc' = "exit" /\ UNCHANGED mem
       ELSE /\ out' = [out EXCEPT !.loads = @ + 1]
            /\ mem' = [mem EXCEPT !.w = file.w, !.h = file.h,
                                  !.img_original = file.data]
            /\ pc' = "threshold"

\* img_bool and the two float buffers are allocated, each tested for NULL;
\* in between the image is thresholded and released
Threshold ==
    /\ pc = "threshold"
    /\ UNCHANGED <<argv, file, argi, opt, d1, qz, par>>
    /\ \E fail \in {"", "img_bool", "img_float_inside", "img_float_outside"} :
        IF fail = "img_bool"
        THEN AllocError(fail, "img_bool malloc failed.") /\ UNCHANGED <<mem, sec>>
        ELSE LET thresholded ==
                     [mem EXCEPT
                        !.img_bool = transform_img_to_bool(mem.img_original,
                                         mem.w, mem.h, 2, opt.test_channel,
                                         opt.test_above),
                        !.img_original = Null]
             IN IF fail = "img_float_inside"
                THEN /\ AllocError(fail, "img_float_inside malloc failed.")
                     /\ mem' = thresholded /\ UNCHANGED sec
                ELSE IF fail = "img_float_outside"
                THEN /\ AllocError(fail, "img_float_outside malloc failed.")
                     /\ mem' = thresholded /\ UNCHANGED sec
                ELSE /\ \E g \in Garbage :
                          mem' = [thresholded EXCEPT
                                    !.img_float_inside = malloc(mem.w * mem.h, g),
                                    !.img_float_outside = malloc(mem.w * mem.h, g)]
                     /\ sec' = [s \in Sections |->
                                   [pc |-> "seed", img_tpose |-> Null]]
                     /\ pc' = "sections" /\ UNCHANGED out

\* both sections handed the same buffer
SetImg_Aliased(s, img) == mem' = [mem EXCEPT !.img_float_inside = img]

Img(s) == IF s = "inside" THEN mem.img_float_inside ELSE mem.img_float_outside
SetImg(s, img) ==
    mem' = IF s = "inside" THEN [mem EXCEPT !.img_float_inside = img]
           ELSE [mem EXCEPT !.img_float_outside = img]

\* transform_bool_to_float(img_bool, img_float_..., w, h, true / false)
Seed(s) ==
    /\ pc = "sections" /\ sec[s].pc = "seed"
    /\ SetImg(s, transform_bool_to_float(mem.img_bool, mem.w, mem.h,
                                         s = "inside"))
    /\ sec' = [sec EXCEPT ![s].pc = "rows"]
    /\ UNCHANGED <<argv, file, pc, argi, opt, out, d1, qz, par>>

\* dist_transform_2d, first half: dist_transform_axis(img, w, h), then
\* img_tpose = malloc(...) and transpose_cpy(img_tpose, img, w, h).  Neither
\* the scratch buffers of a row nor img_tpose are tested for NULL.  (A
\* scratch buffer that is NULL and never touched changes nothing: free(NULL)
\* does nothing.)
Dist2DRows(s) ==
    /\ pc = "sections" /\ sec[s].pc = "rows"
    /\ UNCHANGED <<argv, file, argi, opt, d1, qz, par>>
    /\ \E fail \in {"", "scratch", "img_tpose"} :
        IF fail = "scratch" /\ AxisUsesScratch(Img(s), mem.w, mem.h)
        THEN NullAccess("scratch") /\ UNCHANGED <<mem, sec>>
        ELSE IF fail = "img_tpose"
        THEN NullAccess("img_tpose") /\ UNCHANGED <<mem, sec>>
        ELSE /\ \E gs \in [0..(mem.h - 1) -> Garbage], g \in Garbage :
                  LET img == dist_transform_axis(Img(s), mem.w, mem.h, gs)
                  IN /\ SetImg(s, img)
                     /\ sec' = [sec EXCEPT
                                  ![s].pc = "cols",
                                  ![s].img_tpose = transpose_cpy(
                                      malloc(mem.w * mem.h, g), img, mem.w,
                                      mem.h)]
             /\ UNCHANGED <<pc, out>>

\* dist_transform_2d, second half: dist_transform_axis(img_tpose, h, w), then
\* transpose_cpy_sqrt(img, img_tpose, h, w) and free(img_tpose)
Dist2DCols(s) ==
    /\ pc = "sections" /\ sec[s].pc = "cols"
    /\ UNCHANGED <<argv, file, argi, opt, d1, qz, par>>
    /\ \E fail \in {"", "scratch"} :
        IF fail = "scratch" /\ AxisUsesScratch(sec[s].img_tpose, mem.h, mem.w)
        THEN NullAccess("scratch") /\ UNCHANGED <<mem, sec>>
        ELSE /\ \E gs \in [0..(mem.w - 1) -> Garbage] :
                  SetImg(s, transpose_cpy_sqrt(Img(s),
                                dist_transform_axis(sec[s].img_tpose, mem.h,
                                                    mem.w, gs),
                                mem.h, mem.w))
             /\ sec' = [sec EXCEPT ![s].pc = "done", ![s].img_tpose = Null]
             /\ UNCHANGED <<pc, out>>

\* after the sections: free(img_bool); transform_float_sub; free(outside)
Combine ==
    /\ pc = "sections" /\ \A s \in Sections : sec[s].pc = "done"
    /\ mem' = [mem EXCEPT
                 !.img_bool = Null,
                 !.img_float_inside = transform_float_sub(mem.img_float_inside,
                                          mem.img_float_outside, mem.w, mem.h),
                 !.img_float_outside = Null]
    /\ pc' = "quantize"
    /\ UNCHANGED <<argv, file, argi, opt, sec, out, d1, qz, par>>

\* what the undefined conversion of a NaN to unsigned char can give
UBBytes == {0, 255}

\* img_byte = malloc(...), tested for NULL; transform_float_to_byte;
\* free(img_float_inside)
Quantize ==
    /\ pc = "quantize"
    /\ UNCHANGED <<argv, file, argi, opt, sec, d1, qz, par>>
    /\ \E fail \in {"", "img_byte"} :
        IF fail = "img_byte"
        THEN AllocError(fail, "img_byte malloc failed.") /\ UNCHANGED mem
        ELSE /\ \E ub \in UBBytes :
                  mem' = [mem EXCEPT
                            !.img_byte = transform_float_to_byte(
                                             mem.img_float_inside, mem.w, mem.h,
                                             opt.spread, opt.asymmetric, ub),
                            !.img_float_inside = Null]
             /\ pc' = "encode" /\ UNCHANGED out

\* the filetype is deduced, the encoder is called (it may fail: its return
\* value is not looked at), img_byte is released, main returns 0
Encode ==
    /\ pc = "encode"
    /\ LET dot == strrchr_dot(opt.outfile)
           filetype == IF dot # -1 /\ opt.filetype = FT_NONE
                       THEN read_filetype(StrFrom(opt.outfile, dot + 1))
                       ELSE opt.filetype
           call == [encoder |-> IF filetype = FT_BMP THEN "stbi_write_bmp"
                                ELSE IF filetype = FT_JPG THEN "stbi_write_jpg"
                                ELSE IF filetype = FT_TGA THEN "stbi_write_tga"
                                ELSE "stbi_write_png",
                    quality |-> IF filetype = FT_JPG THEN opt.quality ELSE 0,
                    outfile |-> opt.outfile, w |-> mem.w, h |-> mem.h,
                    data |-> mem.img_byte]
       IN /\ opt' = [opt EXCEPT !.filetype = filetype]
          /\ \E ok \in BOOLEAN :
                out' = [out EXCEPT
                          !.writes = Append(@, [call |-> call, ok |-> ok]),
                          !.status = 0]
    /\ mem' = [mem EXCEPT !.img_byte = Null]
    /\ pc' = "exit"
    /\ UNCHANGED <<argv, file, argi, sec, d1, qz, par>>

Next ==
    \/ ParseArg \/ Validate \/ Load \/ Threshold
    \/ \E s \in Sections : Seed(s) \/ Dist2DRows(s) \/ Dist2DCols(s)
    \/ Combine \/ Quantize \/ Encode

\* ---- the command lines and input files the specifications draw from
prog == <<"c">>
in_png == <<"i", "n">>
out_plain == <<"o">>
sw(c) == <<"-", c>>

\* the state of main before the argument loop
InitMain ==
    /\ pc = "args" /\ argi = 0
    /\ opt = [infile |-> NULL, outfile |-> NULL, test_channel |-> 1,
              test_above |-> TRUE, asymmetric |-> FALSE, spread |-> 4,
              quality |-> 100, filetype |-> FT_NONE]
    /\ mem = [w |-> 0, h |-> 0, img_original |-> Null, img_bool |-> Null,
              img_float_inside |-> Null, img_float_outside |-> Null,
              img_byte |-> Null]
    /\ sec = [s \in Sections |-> [pc |-> "idle", img_tpose |-> Null]]
    /\ out = [usage |-> FALSE, err |-> "", loads |-> 0, writes |-> <<>>,
              status |-> 0, failed |-> "", null_access |-> FALSE]
    /\ d1 = Idle /\ qz = Idle /\ par = Idle

\* a decoded image: w x h pixels of two channels (luminance, alpha)
Image(w, h, data) == [ok |-> TRUE, w |-> w, h |-> h, data |-> data]
NoImage == [ok |-> FALSE, w |-> 0, h |-> 0, data |-> Null]

\* the w x h image whose pixel p has the channels px[p]
ImageOf(w, h, px) ==
    Image(w, h, [c \in 0..(2 * w * h - 1) |-> px[c \div 2][(c % 2) + 1]])

\* ---- the pipeline on small images
Pixels == {<<0, 0>>, <<255, 255>>}
Images ==
    UNION {{ImageOf(w, h, px) : px \in [0..(w * h - 1) -> Pixels]} :
              w \in 1..MaxW, h \in 1..MaxH}

Cmd(extra) == <<prog, sw("i"), in_png, sw("o"), out_plain>> \o extra

Init ==
    /\ argv = Cmd(<<sw("s"), <<"2">>>>)
    /\ file \in Images \cup {NoImage}
    /\ InitMain

Spec == Init /\ [][Next]_vars

\* ---- the 3 x 3 image whose only inside pixel is the centre
Centre == ImageOf(3, 3, [p \in 0..8 |-> IF p = 4 THEN <<255, 255>> ELSE <<0, 0>>])

InitCentre ==
    /\ argv = Cmd(<<sw("s"), <<"2">>>>)
    /\ file = Centre
    /\ InitMain

SpecCentre == InitCentre /\ [][Next]_vars

\* ---- the thresholder on one pixel of every value
Bytes == 0..UCHAR_MAX

InitThreshold ==
    /\ argv \in {Cmd(<<>>), Cmd(<<sw("n")>>), Cmd(<<sw("l")>>),
                 Cmd(<<<<"-", "n", "l">>>>)}
    /\ file \in {ImageOf(1, 1, [p \in {0} |-> <<b, o>>]) :
                    b \in Bytes, o \in {0, UCHAR_MAX}}
             \cup {ImageOf(1, 1, [p \in {0} |-> <<o, b>>]) :
                    b \in Bytes, o \in {0, UCHAR_MAX}}
    /\ InitMain

SpecThreshold == InitThreshold /\ [][Next]_vars

\* ---- the argument loop on command lines of up to MaxFrags options
Frags ==
    {<<sw("i"), in_png>>, <<sw("o"), out_plain>>, <<sw("i")>>,
     <<sw("s"), <<"0">>>>, <<sw("s"), <<"2">>>>,
     <<sw("q"), <<"0">>>>, <<sw("q"), <<"1", "0", "1">>>>,
     <<sw("f"), <<"p", "n", "g">>>>, <<sw("f"), <<"p", "n", "g", "x">>>>,
     <<sw("f"), <<"g", "i", "f">>>>, <<sw("h")>>}

RECURSIVE Concat(_)
Concat(ss) == IF ss = <<>> THEN <<>> ELSE Head(ss) \o Concat(Tail(ss))

InitArgs ==
    /\ argv \in {<<prog>> \o Concat(fs) :
                    fs \in UNION {[1..n -> Frags] : n \in 0..MaxFrags}}
    /\ file \in {ImageOf(1, 1, [p \in {0} |-> <<255, 255>>]), NoImage}
    /\ InitMain

SpecArgs == InitArgs /\ [][Next]_vars

\* ---- output paths and format tags
OutFiles ==
    {<<"o">>, <<"o", ".">>, <<"o", ".", "p", "n", "g">>,
     <<"o", ".", "b", "m", "p">>, <<"o", ".", "j", "p", "g">>,
     <<"o", ".", "t", "g", "a">>, <<"o", ".", "g", "i", "f">>,
     <<"o", ".", "j", "p", "g", "x">>, <<"o", ".", "j", "p", "g", ".", "t", "g", "a">>}

FormatTags ==
    {<<"p", "n", "g">>, <<"b", "m", "p">>, <<"j", "p", "g">>, <<"t", "g", "a">>,
     <<"t", "g", "a", "x">>, <<"g", "i", "f">>}

InitFormat ==
    /\ argv \in {<<prog, sw("i"), in_png, sw("o"), o>> \o f \o q :
                    o \in OutFiles,
                    f \in {<<>>} \cup {<<sw("f"), t>> : t \in FormatTags},
                    q \in {<<>>, <<sw("q"), <<"5", "0">>>>}}
    /\ file = ImageOf(1, 1, [p \in {0} |-> <<255, 255>>])
    /\ InitMain

SpecFormat == InitFormat /\ [][Next]_vars

\* ------------------------------------------------------------------ 1-D
Heights == {n * (ONE \div 2) : n \in 0..MaxHeight} \cup {INFINITY}

IdleMain ==
    /\ argv = <<>> /\ file = NoImage /\ pc = "idle" /\ argi = 0
    /\ opt = Idle /\ mem = Idle /\ sec = Idle /\ out = Idle

Init1D ==
    /\ \E N \in 1..MaxN : \E f \in [0..(N - 1) -> Heights] : \E g \in Garbage :
          d1 = D1Start(f, N, g) @@ [round |-> 1, row0 |-> f, once |-> Null]
    /\ qz = Idle /\ par = Idle /\ IdleMain

Entry1D == d1.pc = "entry" /\ d1' = D1Entry(d1) /\ UNCHANGED <<mainvars, qz, par>>
Scan1D == d1.pc = "scan" /\ d1' = D1Scan(d1) /\ UNCHANGED <<mainvars, qz, par>>
Part1_1D == d1.pc = "part1" /\ d1' = D1Part1(d1) /\ UNCHANGED <<mainvars, qz, par>>
Part2_1D == d1.pc = "part2" /\ d1' = D1Part2(d1) /\ UNCHANGED <<mainvars, qz, par>>

\* the routine is called again on the row the first call has left, with
\* fresh scratch buffers; ghost fields: round, the number of the call, row0,
\* the row before the first call, and once, the row after the first call
Again1D ==
    /\ d1.pc = "done" /\ d1.round = 1
    /\ \E g \in Garbage :
          d1' = D1Start(d1.f, d1.N, g) @@ [round |-> 2, row0 |-> d1.row0, once |-> d1.f]
    /\ UNCHANGED <<mainvars, qz, par>>

Next1D == Entry1D \/ Scan1D \/ Part1_1D \/ Part2_1D \/ Again1D

\* the rows of the termination check: cells of height 0, 2 or +inf
FairHeights == {0, 2 * ONE, INFINITY}

InitFair ==
    /\ \E N \in 1..MaxN : \E f \in [0..(N - 1) -> FairHeights] : \E g \in Garbage :
          d1 = D1Start(f, N, g) @@ [round |-> 1, row0 |-> f, once |-> Null]
    /\ qz = Idle /\ par = Idle /\ IdleMain

\* the routine is straight-line code run by one thread: whenever it has a
\* next step, it takes it
Spec1DFair == InitFair /\ [][Next1D]_vars /\ WF_vars(Next1D)

Spec1D == Init1D /\ [][Next1D]_vars

\* ------------------------------------------------------------------ quantizer
\* the signed values: the quarters from -(MaxSpread + 1) to MaxSpread + 1 and
\* the two infinities
QValues ==
    {n * (ONE \div 4) : n \in (-4 * (MaxSpread + 1))..(4 * (MaxSpread + 1))}
        \cup {-INFINITY, INFINITY}

\* a call on the two values a and b, before it runs
InitQuant ==
    /\ \E a \in QValues, b \in QValues, spread \in 1..MaxSpread,
          asymmetric \in BOOLEAN, ub \in UBBytes :
          qz = [pc |-> "start", float_in |-> <<a, b>>, spread |-> spread,
                asymmetric |-> asymmetric, ub |-> ub, version |-> "none",
                byte_out |-> Null]
    /\ d1 = Idle /\ par = Idle /\ IdleMain

\* transform_float_to_byte as main calls it now
QuantCast ==
    /\ qz.pc = "start"
    /\ qz' = [qz EXCEPT
                !.pc = "done", !.version = "part_000",
                !.byte_out = transform_float_to_byte(
                                 [i \in 0..1 |-> qz.float_in[i + 1]], 2, 1,
                                 qz.spread, qz.asymmetric, qz.ub)]
    /\ UNCHANGED <<mainvars, d1, par>>

\* transform_float_to_byte as it was with lrintf
QuantLrintf ==
    /\ qz.pc = "start"
    /\ qz' = [qz EXCEPT
                !.pc = "done", !.version = "part_002",
                !.byte_out = transform_float_to_byte_lrintf(
                                 [i \in 0..1 |-> qz.float_in[i + 1]], 2, 1,
                                 qz.spread, qz.asymmetric, qz.ub)]
    /\ UNCHANGED <<mainvars, d1, par>>

NextQuant == QuantCast \/ QuantLrintf

SpecQuant == InitQuant /\ [][NextQuant]_vars

\* ------------------------------------------- dist_transform_2d, by thread
\* The four parallel loops of dist_transform_2d, one after the other, each
\* run by a team of NWorkers threads under schedule(static): every thread
\* runs one contiguous chunk of the iterations, and the loop ends with the
\* implicit barrier of the construct.
NWorkers == 2
MaxCells == 6

Workers == 1..NWorkers

\* the loops in program order: dist_transform_axis(img, w, h), transpose_cpy,
\* dist_transform_axis(img_tpose, h, w), transpose_cpy_sqrt
Loops == <<"rows", "tpose", "cols", "tpose_back">>
NLoops == Len(Loops)

\* iteration count of loop l on a w x h field
Iters(l, w, h) == IF l = 1 THEN h ELSE IF l = 3 THEN w ELSE w * h

Min2(a, b) == IF a < b THEN a ELSE b

\* schedule(static), no chunk size: chunks of ceil(n / NWorkers) iterations,
\* given to the threads in order of thread number
ChunkSize(n) == (n + NWorkers - 1) \div NWorkers
ChunkStart(t, n) == Min2(n, (t - 1) * ChunkSize(n))
ChunkEnd(t, n) == Min2(n, t * ChunkSize(n))

NoAccess == [t \in Workers |-> [r |-> {}, w |-> {}]]

\* the state on entry of dist_transform_2d(img, w, h); ghost fields: img0 the
\* field on entry, acc the cells each thread has read and written in the
\* current loop, stray the cells a 1-D call has touched outside its own row,
\* cnt the number of writes to each destination cell of the current loop,
\* ran the iterations of each loop that have run
ParStart(img, w, h) ==
    [l |-> 1, w |-> w, h |-> h, img0 |-> img, img |-> img, img_tpose |-> Null,
     next |-> [t \in Workers |-> ChunkStart(t, h)],
     acc |-> NoAccess, stray |-> {},
     cnt |-> [i \in 0..(w * h - 1) |-> 0],
     ran |-> [l \in 1..NLoops |-> {}]]

Row(buf, y, N) == [x \in 0..(N - 1) |-> buf[y * N + x]]
RowCells(name, y, N) == {<<name, y * N + x>> : x \in 0..(N - 1)}

\* one iteration of the loop of dist_transform_axis(buf, N, rows) by thread
\* t: the 1-D call on row y with fresh scratch buffers of content g
AxisIter(p, t, name, buf, N, y, g) ==
    LET st == D1Run(D1Start(Row(buf, y, N), N, g))
        rd == (IF N <= 1 THEN {} ELSE RowCells(name, y, N))
                 \cup (IF st.past THEN {<<name, y * N + N>>} ELSE {})
        wr == IF UsesScratch(Row(buf, y, N), N) THEN RowCells(name, y, N) ELSE {}
        out_buf == [i \in DOMAIN buf |->
                      IF i \div N = y THEN st.f[i % N] ELSE buf[i]]
    IN [p EXCEPT ![name] = out_buf,
                 !.acc[t].r = @ \cup rd, !.acc[t].w = @ \cup wr,
                 !.stray = @ \cup ((rd \cup wr) \ RowCells(name, y, N)),
                 !.next[t] = y + 1,
                 !.ran[p.l] = @ \cup {y}]

\* a copy loop that does not transpose
TransposeIter_Straight(p, t, dname, sname, w, h, i, root) ==
    [p EXCEPT ![dname][i] = IF root THEN sqrtf(p[sname][i]) ELSE p[sname][i],
              !.acc[t].r = @ \cup {<<sname, i>>},
              !.acc[t].w = @ \cup {<<dname, i>>},
              !.cnt[i] = @ + 1,
              !.next[t] = i + 1,
              !.ran[p.l] = @ \cup {i}]

\* one iteration of the loop of transpose_cpy or transpose_cpy_sqrt by
\* thread t: dest[h * x + y] = src[i] of a w x h source
TransposeIter(p, t, dname, sname, w, h, i, root) ==
    LET x == i % w
        y == i \div w
        val == IF root THEN sqrtf(p[sname][i]) ELSE p[sname][i]
    IN [p EXCEPT ![dname][h * x + y] = val,
                 !.acc[t].r = @ \cup {<<sname, i>>},
                 !.acc[t].w = @ \cup {<<dname, h * x + y>>},
                 !.cnt[h * x + y] = @ + 1,
                 !.next[t] = i + 1,
                 !.ran[p.l] = @ \cup {i}]

InitPar ==
    /\ \E w \in 1..MaxCells : \E h \in 1..MaxCells :
          /\ w * h <= MaxCells
          /\ \E img \in [0..(w * h - 1) -> {0, INFINITY}] : par = ParStart(img, w, h)
    /\ d1 = Idle /\ qz = Idle /\ IdleMain

\* thread t runs the next iteration of its chunk of the current loop
ParIter(t) ==
    /\ par.l <= NLoops
    /\ par.next[t] < ChunkEnd(t, Iters(par.l, par.w, par.h))
    /\ \E g \in Garbage :
          par' = CASE par.l = 1 -> AxisIter(par, t, "img", par.img, par.w, par.next[t], g)
                   [] par.l = 2 -> TransposeIter(par, t, "img_tpose", "img", par.w, par.h, par.next[t], FALSE)
                   [] par.l = 3 -> AxisIter(par, t, "img_tpose", par.img_tpose, par.h, par.next[t], g)
                   [] par.l = 4 -> TransposeIter(par, t, "img", "img_tpose", par.h, par.w, par.next[t], TRUE)
    /\ UNCHANGED <<mainvars, d1, qz>>

\* a team whose threads leave the loop without waiting for each other
BarrierOpen_NoWait == TRUE

\* the implicit barrier at the end of a parallel loop: every thread of the
\* team has run its whole chunk
BarrierOpen ==
    \A t \in Workers : par.next[t] = ChunkEnd(t, Iters(par.l, par.w, par.h))

\* the end of a parallel loop and the code up to the start of the next one:
\* after the first loop, float* img_tpose = malloc(w * h * sizeof(float))
ParJoin ==
    /\ par.l <= NLoops
    /\ BarrierOpen
    /\ \E g \in Garbage :
          par' = [par EXCEPT
                    !.l = @ + 1,
                    !.img_tpose = IF par.l = 1 THEN malloc(par.w * par.h, g) ELSE @,
                    !.next = [t \in Workers |->
                                IF par.l < NLoops
                                THEN ChunkStart(t, Iters(par.l + 1, par.w, par.h))
                                ELSE 0],
                    !.acc = NoAccess,
                    !.cnt = [i \in DOMAIN par.cnt |-> 0]]
    /\ UNCHANGED <<mainvars, d1, qz>>

NextPar == (\E t \in Workers : ParIter(t)) \/ ParJoin

SpecPar == InitPar /\ [][NextPar]_vars

\* ------------------------------------------------------------------ claims
SetMin(S) == CHOOSE m \in S : \A x \in S : m <= x

\* min over k of ((q - k)^2 + f0[k])
LowerEnvelope(f0, N, q) ==
    SetMin({FAdd(F((q - k) * (q - k)), f0[k]) : k \in 0..(N - 1)})

HasFinite(f0, N) == \E i \in 0..(N - 1) : ~isinf(f0[i])

\* C1: when dist_transform_1d returns from a row of length N >= 2 that has
\* a finite entry, every f[q] is the minimum over k of (q - k)^2 + f_orig[k].
C1_LowerEnvelope ==
    (d1.pc = "done" /\ d1.N >= 2 /\ HasFinite(d1.f0, d1.N)) =>
        \A q \in 0..(d1.N - 1) : d1.f[q] = LowerEnvelope(d1.f0, d1.N, q)

\* the cells of the w x h field that are seeds where mask = true_is_zero
SeedCells(mask, w, h, true_is_zero) ==
    {i \in 0..(w * h - 1) : mask[i] = true_is_zero}

\* min over the seeds (a, b) of (x - a)^2 + (y - b)^2, for the cell i = (x, y)
BruteForce(seeds, w, i) ==
    LET dx(c) == (i % w) - (c % w)
        dy(c) == (i \div w) - (c \div w)
    IN SetMin({F(dx(c) * dx(c) + dy(c) * dy(c)) : c \in seeds})

\* C2: when dist_transform_2d has returned from a seeded field with at least
\* one seed, every cell holds the square root of the brute-force minimum over
\* the seeds of the squared Euclidean distance.
C2_Euclidean ==
    \A s \in Sections :
        LET seeds == SeedCells(mem.img_bool, mem.w, mem.h, s = "inside")
        IN (pc = "sections" /\ sec[s].pc = "done" /\ seeds # {}) =>
              \A i \in 0..(mem.w * mem.h - 1) :
                  Img(s)[i] = sqrtf(BruteForce(seeds, mem.w, i))

\* max(a, b) of two floats
FMax(a, b) == IF FGt(b, a) THEN b ELSE a

\* C4: the step of the combiner leaves at every pixel
\* d_in - max(0, d_out - 1), d_in and d_out being the pixel's values in the
\* two distance fields as the 2-D EDTs left them.
C4_Combiner ==
    [][(pc = "sections" /\ pc' = "quantize") =>
          \A i \in 0..(mem.w * mem.h - 1) :
              mem'.img_float_inside[i]
                  = FSub(mem.img_float_inside[i],
                         FMax(0, FSub(mem.img_float_outside[i], ONE)))]_vars

\* the mask the thresholder computes from the input file
Mask ==
    transform_img_to_bool(file.data, file.w, file.h, 2, opt.test_channel,
                          opt.test_above)

\* C5: in the signed field the combiner produced, an inside pixel (mask true)
\* has a value >= 0 and an outside pixel (mask false) a value <= 0.
C5_SignLaw ==
    pc = "quantize" =>
        \A i \in 0..(mem.w * mem.h - 1) :
            LET v == mem.img_float_inside[i]
            IN /\ ~isnan(v)
               /\ IF Mask[i] THEN v >= 0 ELSE v <= 0

\* C6: for the 3 x 3 image whose only inside pixel is the centre (spread 2,
\* symmetric, not inverted) the signed field is 0 at the centre, 0 at the
\* four edge pixels and -(sqrt(2) - 1) at the four corners.
C6_CentreField ==
    (pc = "quantize" /\ file = Centre /\ opt.spread = 2 /\ ~opt.asymmetric
        /\ opt.test_above) =>
        mem.img_float_inside
            = [i \in 0..8 |-> IF i = 4 THEN 0
                              ELSE IF i % 2 = 1 THEN 0
                              ELSE -(sqrtf(2 * ONE) - ONE)]

\* the byte the thresholder tests at pixel p, and whether -n was given
TestedByte(p) == file.data[2 * p + opt.test_channel]
invert == ~opt.test_above

\* C3 as stated: for every byte value of the tested channel and both
\* settings of invert, the mask is (byte > 127) XOR invert.
C3_MaskXor ==
    pc = "sections" =>
        \A p \in 0..(mem.w * mem.h - 1) :
            mem.img_bool[p] = ((TestedByte(p) > 127) # invert)

\* C3, amended: the mask is byte > 127 without -n and byte < 127 with -n, so
\* that the byte 127 is outside under both settings.
C3_MaskThreshold ==
    pc = "sections" =>
        \A p \in 0..(mem.w * mem.h - 1) :
            mem.img_bool[p] = IF invert THEN TestedByte(p) < 127
                                        ELSE TestedByte(p) > 127

C3_Witness ==
    /\ pc = "sections" /\ invert
    /\ TestedByte(0) = 127 /\ mem.img_bool[0] = FALSE

\* the lower bound of the source range, and v clamped into the range
Lo(spread, asymmetric) == IF asymmetric THEN 0 ELSE -F(spread)
Clamp(v, lo, hi) == IF v < lo THEN lo ELSE IF v > hi THEN hi ELSE v

\* b is an integer nearest to (clamp(v, lo, spread) - lo) * 255 / (spread - lo)
IsNearest(b, v, spread, asymmetric) ==
    LET lo == Lo(spread, asymmetric)
        num == (Clamp(v, lo, F(spread)) - lo) * 255
        den == F(spread) - lo
        diff == num - b * den
    IN b \in 0..255 /\ 2 * diff <= den /\ 2 * diff >= -den

\* C7: the byte transform_float_to_byte writes is the integer nearest to the
\* clamped, remapped value, for every signed value, spread and mode.
C7_RoundsToNearest ==
    (qz.pc = "done" /\ qz.version = "part_000") =>
        \A i \in 0..1 :
            IsNearest(qz.byte_out[i], qz.float_in[i + 1], qz.spread,
                      qz.asymmetric)

\* C8: with spread and mode fixed the quantizer is monotone: a <= b gives
\* byte(a) <= byte(b), the infinities included.
C8_Monotone ==
    (qz.pc = "done" /\ qz.float_in[1] <= qz.float_in[2]) =>
        qz.byte_out[0] <= qz.byte_out[1]

C8_Witness ==
    /\ qz.pc = "done" /\ qz.version = "part_002"
    /\ -F(qz.spread) < qz.float_in[1] /\ qz.float_in[1] < qz.float_in[2]
    /\ qz.float_in[2] < F(qz.spread)
    /\ qz.byte_out[0] < qz.byte_out[1]

\* C9: every byte is in 0..255; a value at or below the lower bound of the
\* source range gives 0, a value at or above spread gives 255; in asymmetric
\* mode every negative value gives 0.
C9_Saturation ==
    qz.pc = "done" =>
        \A i \in 0..1 :
            LET v == qz.float_in[i + 1]
                b == qz.byte_out[i]
            IN /\ b \in 0..255
               /\ v <= Lo(qz.spread, qz.asymmetric) => b = 0
               /\ v >= F(qz.spread) => b = 255
               /\ (qz.asymmetric /\ v < 0) => b = 0

C9_Witness ==
    /\ qz.pc = "done" /\ qz.asymmetric /\ qz.spread = 4
    /\ qz.float_in = <<-(ONE \div 2), INFINITY>>
    /\ qz.byte_out[0] = 0 /\ qz.byte_out[1] = 255

\* the tags the command line gives with -f: the argument after each -f that
\* stands where the loop looks for a switch (-i, -o, -s, -q and -f take the
\* argument after them as their value)
RECURSIVE TagsFrom(_)
TagsFrom(n) ==
    IF n >= argc THEN {}
    ELSE IF Ch(Arg(n), 0) = "-" /\ Ch(Arg(n), 1) \in {"i", "o", "s", "q", "f"}
    THEN (IF Ch(Arg(n), 1) = "f" /\ n + 1 < argc THEN {Arg(n + 1)} ELSE {})
             \cup TagsFrom(n + 2)
    ELSE TagsFrom(n + 1)

TagNames == {type_table[t] : t \in 1..4}
Prefix3(t) == SubSeq(t, 1, IF Len(t) < 3 THEN Len(t) ELSE 3)

\* what main has parsed is not acceptable
BadOptions ==
    \/ opt.spread = 0
    \/ opt.quality = 0 \/ opt.quality > 100
    \/ opt.infile = NULL \/ opt.outfile = NULL

\* the run ended in an error before any decoding or writing
ErrorExit ==
    /\ pc = "exit" /\ out.err # "" /\ out.status # 0
    /\ out.loads = 0 /\ out.writes = <<>>

\* the run ended with the usage text and status 0 before any decoding or
\* writing
HelpExit ==
    /\ pc = "exit" /\ out.usage /\ out.err = "" /\ out.status = 0
    /\ out.loads = 0 /\ out.writes = <<>>

\* C10 as stated: once the arguments are dealt with, a spread of 0, a
\* quality of 0 or above 100, a -f tag other than png, bmp, jpg, tga, or a
\* missing input or output path means the run has ended in an error with a
\* non-zero status, nothing decoded and nothing written.
C10_InvalidArguments ==
    (pc # "args" /\ (BadOptions \/ \E t \in TagsFrom(0) : t \notin TagNames))
        => ErrorExit

\* C10, amended: a tag is refused when its first three characters are not
\* one of the four names, and a run that meets -h first ends with the usage
\* text and status 0; either way nothing is decoded and nothing is written.
C10_InvalidArgumentsOrHelp ==
    (pc # "args"
        /\ (BadOptions
               \/ \E t \in TagsFrom(0) : Prefix3(t) \notin TagNames))
        => (ErrorExit \/ HelpExit)

C10_Witness ==
    /\ ErrorExit /\ opt.spread = 0 /\ opt.quality = 100
    /\ opt.infile # NULL /\ opt.outfile # NULL
    /\ TagsFrom(0) = {}

\* the encoder was called and did not write the output
EncoderFailed == \E n \in 1..Len(out.writes) : ~out.writes[n].ok

\* C11: a run ends with status 0 only if the decoder accepted the input and
\* the encoder reported the output written; a run in which the decoder
\* rejected the input or the encoder failed ends with a non-zero status.
C11_ExitStatus ==
    pc = "exit" =>
        /\ out.status = 0 =>
              /\ out.loads = 1 /\ file.ok
              /\ Len(out.writes) = 1 /\ out.writes[1].ok
        /\ (out.loads > 0 /\ ~file.ok) => out.status # 0
        /\ EncoderFailed => out.status # 0

\* C12: when the malloc of a working buffer has failed, the run has ended
\* with an error message and a non-zero status, the buffer was never
\* accessed and the encoder was never called.
C12_AllocationFailure ==
    out.failed # "" =>
        /\ pc = "exit" /\ out.err # "" /\ out.status # 0
        /\ ~out.null_access
        /\ out.writes = <<>>

\* the buffer holds a byte for every pixel of the w x h image
CompleteBytes(buf, w, h) ==
    /\ DOMAIN buf = 0..(w * h - 1)
    /\ \A i \in 0..(w * h - 1) : buf[i] \in 0..UCHAR_MAX

\* C13: the encoder is called at most once, the call is made when the
\* quantizer has filled all W*H bytes and hands over exactly those bytes, and
\* a run that ended in an error has not called the encoder.
C13_EncoderOnce ==
    /\ [](/\ Len(out.writes) <= 1
          /\ \A n \in 1..Len(out.writes) :
                CompleteBytes(out.writes[n].call.data, mem.w, mem.h)
          /\ (out.err # "" \/ out.null_access) => out.writes = <<>>)
    /\ [][out'.writes # out.writes =>
             /\ pc = "encode" /\ out.writes = <<>>
             /\ CompleteBytes(mem.img_byte, mem.w, mem.h)
             /\ Len(out'.writes) = 1
             /\ out'.writes[1].call.data = mem.img_byte]_vars

C13_Witness ==
    /\ pc = "exit" /\ Len(out.writes) = 1 /\ out.writes[1].ok
    /\ mem.w * mem.h = 4
    /\ CompleteBytes(out.writes[1].call.data, 2, 2)

\* the encoder of each entry of type_table
Encoders ==
    <<"stbi_write_png", "stbi_write_bmp", "stbi_write_jpg", "stbi_write_tga">>

\* the encoder of the format called name, "none" if no format has that name
EncoderOf(name) ==
    IF name \in TagNames
    THEN Encoders[CHOOSE t \in 1..4 : type_table[t] = name]
    ELSE "none"

\* the -f tag of the command line and the text after the last '.' of the
\* output path
GivenTag == CHOOSE t \in TagsFrom(0) : TRUE
Extension == StrFrom(opt.outfile, strrchr_dot(opt.outfile) + 1)
HasDot == \E i \in 1..Len(opt.outfile) : opt.outfile[i] = "."

\* the call the encoder got is the one for the format called name
CalledFor(name) ==
    /\ out.writes[1].call.encoder = EncoderOf(name)
    /\ out.writes[1].call.quality
          = IF EncoderOf(name) = "stbi_write_jpg" THEN opt.quality ELSE 0

\* C14 as stated: the format is the -f tag if there is one, else the
\* extension of the output path if that is png, bmp, jpg or tga, else PNG;
\* the quality goes to the JPEG encoder only.
C14_OutputFormat ==
    out.writes # <<>> =>
        CalledFor(IF TagsFrom(0) # {} THEN GivenTag
                  ELSE IF HasDot /\ Extension \in TagNames THEN Extension
                  ELSE <<"p", "n", "g">>)

\* C14, amended: of the tag and of the extension only the first three
\* characters count.
C14_OutputFormatPrefix ==
    out.writes # <<>> =>
        CalledFor(IF TagsFrom(0) # {} THEN Prefix3(GivenTag)
                  ELSE IF HasDot /\ Prefix3(Extension) \in TagNames
                       THEN Prefix3(Extension)
                  ELSE <<"p", "n", "g">>)

C14_Witness ==
    /\ pc = "exit" /\ out.writes # <<>> /\ TagsFrom(0) = {}
    /\ opt.outfile = <<"o", ".", "j", "p", "g", "x">>
    /\ out.writes[1].call.encoder = "stbi_write_jpg"
    /\ out.writes[1].call.quality = 50


\* the iterations of loop l that exist on the field in par
AllIters(l) == 0..(Iters(l, par.w, par.h) - 1)

\* the cells of the transposed buffer the first transpose has written
TposeWritten == {par.h * (i % par.w) + (i \div par.w) : i \in par.ran[2]}

\* C15: the four loops of dist_transform_2d are separated by barriers under
\* every schedule of the threads: the first transpose runs no iteration
\* before every row's 1-D transform has finished, no 1-D transform of the
\* transposed buffer runs before the first transpose has written every cell
\* of that buffer, and the transpose back runs no iteration before every
\* 1-D transform of the transposed buffer has finished.
C15_Barriers ==
    par # Idle =>
        /\ par.ran[2] # {} => par.ran[1] = AllIters(1)
        /\ par.ran[3] # {} => TposeWritten = 0..(par.w * par.h - 1)
        /\ par.ran[4] # {} => par.ran[3] = AllIters(3)

\* a 2 x 2 field on which both threads have run iterations of all four loops
C15_Witness ==
    /\ par # Idle
    /\ par.w = 2 /\ par.h = 2
    /\ par.l > NLoops
    /\ \A l \in 1..NLoops : par.ran[l] = AllIters(l)


\* no cell is written by one thread and read or written by another in the
\* current loop
NoSharedCell ==
    \A t \in Workers : \A u \in Workers \ {t} :
        par.acc[t].w \cap (par.acc[u].r \cup par.acc[u].w) = {}

\* a transpose has written no destination cell twice, and every one of them
\* once when its loop ends
WritesOnce ==
    par.l \in {2, 4} =>
        /\ \A i \in DOMAIN par.cnt : par.cnt[i] <= 1
        /\ BarrierOpen => \A i \in DOMAIN par.cnt : par.cnt[i] = 1

\* C16: within each parallel loop of dist_transform_2d, under every
\* interleaving of the threads, no cell is written by one thread and read
\* or written by another, the 1-D call for row y touches only the cells
\* y*w .. y*w + w - 1 of its buffer, and each transpose writes every
\* destination cell exactly once.
C16_NoSharing ==
    par # Idle => NoSharedCell /\ par.stray = {} /\ WritesOnce


\* the buffer of section s in the memory m
ImgIn(m, s) == IF s = "inside" THEN m.img_float_inside ELSE m.img_float_outside

\* what the next step of section s can leave in its buffer and its img_tpose
\* when it is computed from the section's own buffer and the mask alone
StepAlone(s) ==
    CASE sec[s].pc = "seed" ->
           {<<transform_bool_to_float(mem.img_bool, mem.w, mem.h, s = "inside"), Null>>}
      [] sec[s].pc = "rows" ->
           LET rows == {dist_transform_axis(Img(s), mem.w, mem.h, gs) :
                           gs \in [0..(mem.h - 1) -> Garbage]}
           IN {<<r, transpose_cpy(malloc(mem.w * mem.h, g), r, mem.w, mem.h)>> :
                  r \in rows, g \in Garbage}
      [] sec[s].pc = "cols" ->
           {<<transpose_cpy_sqrt(Img(s),
                  dist_transform_axis(sec[s].img_tpose, mem.h, mem.w, gs),
                  mem.h, mem.w), Null>> :
               gs \in [0..(mem.w - 1) -> Garbage]}
      [] OTHER -> {}

Other(s) == IF s = "inside" THEN "outside" ELSE "inside"

BothDone == pc = "sections" /\ \A s \in Sections : sec[s].pc = "done"

SeededRow(f) ==
    /\ \A i \in DOMAIN f : f[i] \in {0, INFINITY}
    /\ \E i \in DOMAIN f : f[i] = 0

\* C18: for every row whose entries are all 0 or +inf with at least one 0,
\* applying dist_transform_1d twice gives the same row as applying it once.
C18_Idempotent ==
    (d1 # Idle /\ d1.pc = "done" /\ d1.round = 2 /\ SeededRow(d1.row0)) =>
        d1.f = d1.once


\* C19: after dist_transform_1d on any row, every finite output value f[q]
\* equals (q - v)^2 + f_orig[v] for some index v of the row with finite
\* f_orig[v], and no finite output is negative.
C19_Bounded ==
    (d1 # Idle /\ d1.pc = "done") =>
        \A q \in 0..(d1.N - 1) :
            ~isinf(d1.f[q]) =>
                /\ \E v \in 0..(d1.N - 1) :
                      /\ ~isinf(d1.f0[v])
                      /\ d1.f[q] = F((q - v) * (q - v)) + d1.f0[v]
                /\ d1.f[q] >= 0


\* the buffer the 1-D calls of loop l work on, and the length of its rows
AxisBuf(p, l) == IF l = 1 THEN p.img ELSE p.img_tpose
AxisN(p, l) == IF l = 1 THEN p.w ELSE p.h

\* C20: dist_transform_1d leaves a row unchanged when it has at most one
\* cell or when every entry is +inf, and after dist_transform_2d of a field
\* without a seed every cell is +inf.
C20_Frame ==
    /\ [][(par # Idle /\ par.l \in {1, 3} /\ par'.l = par.l) =>
             LET N == AxisN(par, par.l)
                 before == AxisBuf(par, par.l)
                 after == AxisBuf(par', par.l)
             IN \A y \in par'.ran[par.l] \ par.ran[par.l] :
                    (N <= 1 \/ \A x \in 0..(N - 1) : before[y * N + x] = INFINITY)
                        => Row(after, y, N) = Row(before, y, N)]_vars
    /\ []((/\ par # Idle /\ par.l > NLoops
           /\ \A i \in DOMAIN par.img0 : par.img0[i] = INFINITY)
             => \A i \in DOMAIN par.img : par.img[i] = INFINITY)

\* dist_transform_2d has returned from a 2 x 2 field without a seed: each of
\* its 1-D calls was on a row of two +inf
C20_Witness ==
    /\ par # Idle /\ par.l > NLoops
    /\ par.w = 2 /\ par.h = 2
    /\ \A i \in DOMAIN par.img0 : par.img0[i] = INFINITY
    /\ \A i \in DOMAIN par.img : par.img[i] = INFINITY

\* both sections have seeded their buffer and neither has gone further
BothSeeded == pc = "sections" /\ \A s \in Sections : sec[s].pc = "rows"

\* C21: with true_is_zero = true transform_bool_to_float writes 0 at every
\* cell whose mask value is true and +inf elsewhere, and with the opposite
\* polarity it writes 0 exactly at the false cells; hence after seeding, at
\* every pixel exactly one of F_in and F_out is 0 and the other is +inf.
C21_Seeding ==
    pc = "sections" =>
        /\ \A s \in Sections :
              sec[s].pc = "rows" =>
                  \A i \in 0..(mem.w * mem.h - 1) :
                      Img(s)[i] = IF mem.img_bool[i] = (s = "inside")
                                  THEN 0 ELSE INFINITY
        /\ BothSeeded =>
              \A i \in 0..(mem.w * mem.h - 1) :
                  \/ Img("inside")[i] = 0 /\ Img("outside")[i] = INFINITY
                  \/ Img("inside")[i] = INFINITY /\ Img("outside")[i] = 0

\* both buffers seeded from a 2 x 2 mask with cells of both kinds
C21_Witness ==
    /\ BothSeeded
    /\ mem.w = 2 /\ mem.h = 2
    /\ \E i, j \in DOMAIN mem.img_bool : mem.img_bool[i] /\ ~mem.img_bool[j]

\* Part 1 of the call in d1 has ended and Part 2 has begun
AfterPart1 == d1 # Idle /\ d1.pc = "part2"

\* C22: after Part 1 of dist_transform_1d on a row with at least one finite
\* entry, the used vertices satisfy v[0] < v[1] < ... < v[k], the used break
\* points satisfy z[0] < ... < z[k-1], and each z[i] is the intersection
\* abscissa of the parabolas rooted at v[i] and v[i+1].
C22_Envelope ==
    AfterPart1 =>
        /\ \A i \in 0..(d1.k - 1) : d1.v[i] < d1.v[i + 1]
        /\ \A i \in 0..(d1.k - 2) : QLt(d1.z[i], d1.z[i + 1])
        /\ \A i \in 0..(d1.k - 1) :
              d1.z[i] = parabola_intersect(d1.f0, d1.v[i], d1.v[i + 1])

\* Part 1 has left three vertices, fewer than the finite entries of the
\* row: the back-up loop has dropped one
C22_Witness ==
    /\ AfterPart1
    /\ d1.k = 2
    /\ Cardinality({i \in 0..(d1.N - 1) : ~isinf(d1.f0[i])}) > 3

\* C23: every call parabola_intersect(f, p, q) made by dist_transform_1d has
\* p < q, so that the divisor 2*(q - p) is not zero, both indices inside the
\* row, and both f[p] and f[q] finite.
C23_IntersectArgs ==
    d1 # Idle =>
        \A c \in d1.calls :
            /\ c[1] < c[2]
            /\ c[1] \in 0..(d1.N - 1) /\ c[2] \in 0..(d1.N - 1)
            /\ ~isinf(d1.f0[c[1]]) /\ ~isinf(d1.f0[c[2]])

\* a call with q = 3 made after backing up to the vertex at 0, on a row
\* whose cell 1 is +inf
C23_Witness ==
    /\ d1 # Idle
    /\ <<0, 3>> \in d1.calls /\ <<2, 3>> \in d1.calls
    /\ isinf(d1.f0[1])

\* C24: dist_transform_1d terminates on every input row: the back-up loop of
\* Part 1 stops at the latest when k reaches 0 and k never becomes
\* negative, and the seek loop of Part 2 stops with j <= k.
C24_Terminates ==
    /\ [](d1 # Idle => d1.k >= 0 /\ d1.j >= 0 /\ d1.j <= d1.k)
    /\ ((d1 # Idle /\ d1.pc = "entry") ~> (d1 # Idle /\ d1.pc = "done"))

\* a finished call in which the back-up loop went down to k = 0 and the seek
\* loop went up to j = k
C24_Witness ==
    /\ d1 # Idle /\ d1.pc = "done"
    /\ <<0, 3>> \in d1.calls /\ <<2, 3>> \in d1.calls
    /\ d1.k >= 1 /\ d1.j = d1.k

\* C25: every access made by dist_transform_1d stays inside its views for
\* every row of length N >= 1: f is read and written only at 0..N-1, also
\* during the scan of a row of only +inf, v and h only at 0..N-1, and z only
\* at 0..N-2.  (Part 1 has written z[k-1], v[k] and h[k]; Part 2 reads z
\* below k and v and h at j.)
C25_InBounds ==
    d1 # Idle =>
        /\ ~d1.past
        /\ d1.k \in 0..(d1.N - 1)
        /\ d1.j \in 0..d1.k

\* C26: whenever Part 2 of dist_transform_1d reads the cached vertex height
\* h[j], that entry was written during Part 1 of the same call and equals
\* f_orig[v[j]], for every j in 0..k including j = 0.
C26_CachedHeight ==
    (d1 # Idle /\ d1.pc = "part2") =>
        \A j \in 0..d1.k : d1.h[j] = d1.f0[d1.v[j]]

\* C27: transpose_cpy of a w x h buffer puts the source cell (x, y), index
\* w*y + x, at destination index h*x + y, without changing it; the transpose
\* back with swapped dimensions returns every cell to its original index,
\* and the square root is applied to each cell exactly once, there.
C27_Transpose ==
    par # Idle =>
        /\ (par.l = 3 /\ par.ran[3] = {}) =>
              \A x \in 0..(par.w - 1) : \A y \in 0..(par.h - 1) :
                  par.img_tpose[par.h * x + y] = par.img[par.w * y + x]
        /\ par.l > NLoops =>
              \A x \in 0..(par.w - 1) : \A y \in 0..(par.h - 1) :
                  par.img[par.w * y + x] = sqrtf(par.img_tpose[par.h * x + y])

\* dist_transform_2d has returned from a 2 x 3 field, and some cell held a
\* value that its square root changes
C27_Witness ==
    /\ par # Idle /\ par.l > NLoops
    /\ par.w = 2 /\ par.h = 3
    /\ \E i \in DOMAIN par.img_tpose : sqrtf(par.img_tpose[i]) # par.img_tpose[i]

HasNaN(img) == \E i \in DOMAIN img : isnan(img[i])

\* the signed field the combiner makes of the two distance fields
Signed == transform_float_sub(Img("inside"), Img("outside"), mem.w, mem.h)

\* the mask has at least one inside and at least one outside pixel
MixedMask == \E i, j \in DOMAIN mem.img_bool : mem.img_bool[i] /\ ~mem.img_bool[j]

\* C28: for every image no NaN appears in either distance field or in the
\* signed field, and the signed field is finite at every pixel whenever the
\* mask has at least one inside and at least one outside pixel.
C28_NoNaN ==
    /\ pc = "sections" =>
          \A s \in Sections : sec[s].pc # "seed" => ~HasNaN(Img(s))
    /\ BothDone =>
          /\ ~HasNaN(Signed)
          /\ MixedMask =>
                \A i \in DOMAIN Signed : ~isinf(Signed[i]) /\ ~isnan(Signed[i])

\* C29: after both 2-D transforms, at every pixel exactly one of d_in and
\* d_out is 0 and the other is either +inf or at least 1, never strictly
\* between 0 and 1, so the biased branch of the combiner, d_out - 1, never
\* yields a negative number.
C29_ZeroOrFar ==
    BothDone =>
        \A i \in 0..(mem.w * mem.h - 1) :
            LET d_in == Img("inside")[i]
                d_out == Img("outside")[i]
            IN /\ \/ d_in = 0 /\ (d_out = INFINITY \/ (~isnan(d_out) /\ d_out >= ONE))
                  \/ d_out = 0 /\ (d_in = INFINITY \/ (~isnan(d_in) /\ d_in >= ONE))
               /\ FGt(d_out, 0) => ~FLt(FSub(d_out, ONE), 0)

\* C30: for an image all of whose pixels are inside every output byte is 0,
\* and for an image all of whose pixels are outside every output byte is
\* 255.
C30_UniformImage ==
    pc = "encode" =>
        /\ (\A i \in DOMAIN Mask : Mask[i]) =>
              \A i \in DOMAIN mem.img_byte : mem.img_byte[i] = 0
        /\ (\A i \in DOMAIN Mask : ~Mask[i]) =>
              \A i \in DOMAIN mem.img_byte : mem.img_byte[i] = UCHAR_MAX

====
